---- MODULE Spec2Model ----
(***************************************************************************)
(* Bookmark-Backup: the scheduler (lib/scheduler.ts), the history ledger   *)
(* and settings store (lib/storage.ts) and the backup orchestrator of the  *)
(* background service worker (background/index.ts).                        *)
(*                                                                         *)
(* Time is the local wall clock in whole seconds since 00:00 of 1 January  *)
(* 2023 (a Sunday), in a zone with a fixed UTC offset.  A JavaScript Date  *)
(* is modelled by that number; the Date setters normalise overflowing      *)
(* fields exactly as ECMAScript's MakeDay does.                            *)
(***************************************************************************)
EXTENDS Integers, Sequences, FiniteSets, TLC

(***************************************************************************)
(* Bounds of the model.                                                    *)
(***************************************************************************)
\* iterations of the monthly clamping loop that are followed before the
\* loop is declared divergent (it exits at once or never, see MonthlyClamp)
MaxLoopIter == 3
\* the instants `now` of the scheduler specification: every day from
\* CalcFirstDay to CalcLastDay (days since the epoch), at each of CalcTimes
CalcFirstDay == 348
CalcLastDay == 488
\* slots for invocations of performBackup that may be in progress at once
MaxRuns == 2
\* invocations of performBackup in one behaviour
MaxStarts == 2
\* advances of the clock in one behaviour
MaxTicks == 2
\* items of the history ledger left by earlier runs
MaxOld == 3
\* settings saved by the options page or popup in one behaviour
MaxSaves == 1
\* slots for schedule handlers (updateSchedule, onInstalled) in progress at once
MaxHandlers == 1
\* nodes of a bookmark tree below its root (serializer specification)
MaxNodes == 3
\* the instants of the filename specification: every day from NameFirstDay
\* to NameLastDay (days since the epoch), at each of NameTimes
NameFirstDay == 363
NameLastDay == 366

(***************************************************************************)
(* Calendar (what the JavaScript Date object computes in local time).      *)
(***************************************************************************)
Epoch == [year |-> 2023, dow |-> 0]
Years == Epoch.year .. (Epoch.year + 2)
SecPerMin == 60 + 0
SecPerHour == 60 * 60
SecPerDay == 24 * 60 * 60

Undefined == 0 - 1
Diverges == 0 - 2

IsLeap(y) == (y % 4 = 0 /\ y % 100 # 0) \/ y % 400 = 0

DaysInMonth(y, m) ==
  IF m = 1 THEN (IF IsLeap(y) THEN 29 ELSE 28)
  ELSE IF m \in {3, 5, 8, 10} THEN 30 ELSE 31

DaysInYear(y) == IF IsLeap(y) THEN 366 ELSE 365

RECURSIVE YearStart(_)
YearStart(y) == IF y <= Epoch.year THEN 0 ELSE YearStart(y - 1) + DaysInYear(y - 1)

RECURSIVE MonthStart(_, _)
\* day number of the first day of month m (0 = January) of year y
MonthStart(y, m) ==
  IF m = 0 THEN YearStart(y) ELSE MonthStart(y, m - 1) + DaysInMonth(y, m - 1)

DayOf(t) == t \div SecPerDay
SecOf(t) == t % SecPerDay

GetFullYear(t) ==
  CHOOSE y \in Years : YearStart(y) <= DayOf(t) /\ DayOf(t) < YearStart(y) + DaysInYear(y)

GetMonth(t) ==
  LET y == GetFullYear(t)
  IN CHOOSE m \in 0..11 :
       MonthStart(y, m) <= DayOf(t) /\ DayOf(t) < MonthStart(y, m) + DaysInMonth(y, m)

GetDate(t) == DayOf(t) - MonthStart(GetFullYear(t), GetMonth(t)) + 1

GetDay(t) == (Epoch.dow + DayOf(t)) % 7

SetHours(t, h, m, s) == DayOf(t) * SecPerDay + h * SecPerHour + m * SecPerMin + s

SetDate(t, n) ==
  (MonthStart(GetFullYear(t), GetMonth(t)) + n - 1) * SecPerDay + SecOf(t)

SetMonth(t, mi) ==
  (MonthStart(GetFullYear(t) + (mi \div 12), mi % 12) + GetDate(t) - 1) * SecPerDay
    + SecOf(t)

\* a civil date and time of day as a Date (used to name instants)
MakeDate(y, m, d, h, mi, s) ==
  (MonthStart(y, m) + d - 1) * SecPerDay + h * SecPerHour + mi * SecPerMin + s

(***************************************************************************)
(* Settings (types/index.ts).                                              *)
(***************************************************************************)
\* backupTime "HH:MM" is the sequence of its four digits
BackupTime(h, m) == <<h \div 10, h % 10, m \div 10, m % 10>>

DEFAULT_SETTINGS ==
  [enabled |-> TRUE, frequency |-> "weekly", customIntervalDays |-> Undefined,
   backupTime |-> BackupTime(9, 0), backupDay |-> 0, format |-> "html",
   autoDownload |-> TRUE, storageMode |-> "extension",
   downloadFolder |-> <<"BookmarkBackups">>, useCustomDirectory |-> FALSE,
   keepBackupCount |-> 5, lastBackup |-> Undefined, nextBackup |-> Undefined]

\* a ?? b
Nullish(a, b) == IF a = Undefined THEN b ELSE a

(***************************************************************************)
(* Scheduler (lib/scheduler.ts).                                           *)
(***************************************************************************)
\* settings.backupTime.split(':').map(Number)
ParseBackupTime(bt) == [hours |-> bt[1] * 10 + bt[2], minutes |-> bt[3] * 10 + bt[4]]

DailyNext_LtMutant(nextBackup, now) ==
  IF nextBackup < now THEN SetDate(nextBackup, GetDate(nextBackup) + 1) ELSE nextBackup

DailyNext(nextBackup, now) ==
  IF nextBackup <= now THEN SetDate(nextBackup, GetDate(nextBackup) + 1) ELSE nextBackup

WeeklyNext(settings, nextBackup, now) ==
  LET targetDay == Nullish(settings.backupDay, 0)
      currentDay == GetDay(now)
      d0 == targetDay - currentDay
      daysUntilTarget == IF d0 < 0 \/ (d0 = 0 /\ nextBackup <= now) THEN d0 + 7 ELSE d0
      nb == SetDate(nextBackup, GetDate(nextBackup) + daysUntilTarget)
  IN IF nb <= now THEN SetDate(nb, GetDate(nb) + 7) ELSE nb

RECURSIVE MonthlyClamp(_, _, _)
\* while (nextBackup.getDate() !== targetDate) { setDate(0); setDate(targetDate) }
\* One iteration takes the date to the last day of the previous month P and
\* then to day targetDate counted from the start of P.  The loop is followed
\* for `fuel` iterations; Diverges stands for a loop that is still running.
MonthlyClamp(nextBackup, targetDate, fuel) ==
  IF GetDate(nextBackup) = targetDate THEN nextBackup
  ELSE IF fuel = 0 THEN Diverges
  ELSE MonthlyClamp(SetDate(SetDate(nextBackup, 0), targetDate), targetDate, fuel - 1)

MonthlyNext(settings, nextBackup, now) ==
  LET targetDate == Nullish(settings.backupDay, 1)
      nb1 == SetDate(nextBackup, targetDate)
      nb2 == IF nb1 <= now THEN SetMonth(nb1, GetMonth(nb1) + 1) ELSE nb1
  IN MonthlyClamp(nb2, targetDate, MaxLoopIter)

CustomNext_DailyMutant(settings, nextBackup, now) ==
  LET intervalDays == Nullish(settings.customIntervalDays, 1)
  IN IF nextBackup < now
     THEN SetDate(nextBackup, GetDate(nextBackup) + intervalDays)
     ELSE nextBackup

CustomNext(settings, nextBackup, now) ==
  LET intervalDays == Nullish(settings.customIntervalDays, 7)
  IN IF nextBackup <= now
     THEN SetDate(nextBackup, GetDate(nextBackup) + intervalDays)
     ELSE nextBackup

\* calculateNextBackupTime(settings), with `now` the value of new Date()
calculateNextBackupTime(settings, now) ==
  LET hm == ParseBackupTime(settings.backupTime)
      nextBackup == SetHours(now, hm.hours, hm.minutes, 0)
  IN CASE settings.frequency = "daily" -> DailyNext(nextBackup, now)
       [] settings.frequency = "weekly" -> WeeklyNext(settings, nextBackup, now)
       [] settings.frequency = "monthly" -> MonthlyNext(settings, nextBackup, now)
       [] settings.frequency = "custom" -> CustomNext(settings, nextBackup, now)

(***************************************************************************)
(* Bookmark serializer (lib/bookmarks.ts).                                 *)
(*                                                                         *)
(* A string is the sequence of its characters.  A BookmarkNode is a record *)
(* [id, title, url, dateAdded, dateGroupModified, folder, children]: url   *)
(* is <<>> when the node has none, folder says that the node has a         *)
(* children property, dates are Undefined when absent.  Serialized text is *)
(* a sequence of tokens [kind, text, href, date, indent], one per line of  *)
(* the HTML file or per member of the JSON text.                           *)
(***************************************************************************)
Bookmark(id, title, url, dateAdded) ==
  [id |-> id, title |-> title, url |-> url, dateAdded |-> dateAdded,
   dateGroupModified |-> Undefined, folder |-> FALSE, children |-> <<>>]

Folder(id, title, dateGroupModified, children) ==
  [id |-> id, title |-> title, url |-> <<>>, dateAdded |-> Undefined,
   dateGroupModified |-> dateGroupModified, folder |-> TRUE, children |-> children]

Tok(kind, text, href, date, indent) ==
  [kind |-> kind, text |-> text, href |-> href, date |-> date, indent |-> indent]

RECURSIVE Flatten(_)
\* the concatenation of a sequence of sequences
Flatten(ss) == IF ss = <<>> THEN <<>> ELSE Head(ss) \o Flatten(Tail(ss))

RECURSIVE SumSeq(_)
SumSeq(ns) == IF ns = <<>> THEN 0 ELSE Head(ns) + SumSeq(Tail(ns))

RECURSIVE countNode(_)
countNode_ShallowMutant(node) == IF node.url # <<>> THEN 1 ELSE 0

\* traverse(node) of countBookmarks: what one node adds to count
countNode(node) ==
  (IF node.url # <<>> THEN 1 ELSE 0)
    + (IF node.folder
       THEN SumSeq([i \in 1..Len(node.children) |-> countNode(node.children[i])])
       ELSE 0)

countBookmarks(nodes) == SumSeq([i \in 1..Len(nodes) |-> countNode(nodes[i])])

\* new Date().toISOString(): the UTC calendar date and time of the instant
ToISOString(now, utcOffset) ==
  LET u == now - utcOffset
  IN [date |-> <<GetFullYear(u), GetMonth(u) + 1, GetDate(u)>>,
      time |-> <<SecOf(u) \div SecPerHour, (SecOf(u) % SecPerHour) \div SecPerMin,
                 SecOf(u) % SecPerMin>>]

\* new Date().toTimeString().split(" ")[0]: the local time of day HH:MM:SS
ToTimeString(now) ==
  <<SecOf(now) \div SecPerHour, (SecOf(now) % SecPerHour) \div SecPerMin,
    SecOf(now) % SecPerMin>>

createBackupData(bookmarks, now, utcOffset) ==
  [version |-> <<"1.0.0">>, exportDate |-> ToISOString(now, utcOffset),
   totalBookmarks |-> countBookmarks(bookmarks), bookmarks |-> bookmarks]

EscapeChar(c) ==
  CASE c = "&" -> "&amp;"
    [] c = "<" -> "&lt;"
    [] c = ">" -> "&gt;"
    [] c = "\"" -> "&quot;"
    [] c = "'" -> "&#039;"
    [] OTHER -> c

escapeHtml(text) == [i \in 1..Len(text) |-> EscapeChar(text[i])]

\* Math.floor(ms / 1000) of a date held in seconds is the date itself
DateAttr(d) == IF d = Undefined \/ d = 0 THEN <<>> ELSE <<d>>

RECURSIVE processNode(_, _)
processNode_DropUntitledMutant(node, indent) ==
  IF node.url # <<>>
  THEN <<Tok("A", escapeHtml(node.title), escapeHtml(node.url),
             DateAttr(node.dateAdded), indent)>>
  ELSE IF node.title # <<>>
  THEN <<Tok("H3", escapeHtml(node.title), <<>>, DateAttr(node.dateGroupModified), indent),
         Tok("DL_OPEN", <<>>, <<>>, <<>>, indent)>>
       \o (IF node.folder
           THEN Flatten([i \in 1..Len(node.children) |->
                          processNode(node.children[i], indent + 1)])
           ELSE <<>>)
       \o <<Tok("DL_CLOSE", <<>>, <<>>, <<>>, indent)>>
  ELSE <<>>

processNode(node, indent) ==
  IF node.url # <<>>
  THEN <<Tok("A", escapeHtml(node.title), escapeHtml(node.url),
             DateAttr(node.dateAdded), indent)>>
  ELSE IF node.title # <<>>
  THEN <<Tok("H3", escapeHtml(node.title), <<>>, DateAttr(node.dateGroupModified), indent),
         Tok("DL_OPEN", <<>>, <<>>, <<>>, indent)>>
       \o (IF node.folder
           THEN Flatten([i \in 1..Len(node.children) |->
                          processNode(node.children[i], indent + 1)])
           ELSE <<>>)
       \o <<Tok("DL_CLOSE", <<>>, <<>>, <<>>, indent)>>
  ELSE IF node.folder
  THEN Flatten([i \in 1..Len(node.children) |-> processNode(node.children[i], indent)])
  ELSE <<>>

exportAsHTML_NoCloseMutant(data) ==
  <<Tok("DOCTYPE", <<>>, <<>>, <<>>, 0), Tok("TITLE", <<"Bookmarks">>, <<>>, <<>>, 0),
    Tok("H1", <<"Bookmarks">>, <<>>, <<>>, 0), Tok("DL_OPEN", <<>>, <<>>, <<>>, 0)>>
  \o Flatten([i \in 1..Len(data.bookmarks) |-> processNode(data.bookmarks[i], 1)])

exportAsHTML(data) ==
  <<Tok("DOCTYPE", <<>>, <<>>, <<>>, 0), Tok("TITLE", <<"Bookmarks">>, <<>>, <<>>, 0),
    Tok("H1", <<"Bookmarks">>, <<>>, <<>>, 0), Tok("DL_OPEN", <<>>, <<>>, <<>>, 0)>>
  \o Flatten([i \in 1..Len(data.bookmarks) |-> processNode(data.bookmarks[i], 1)])
  \o <<Tok("DL_CLOSE", <<>>, <<>>, <<>>, 0)>>

\* the characters of the template literals of exportAsHTML that open and
\* close a list and begin an anchor
DlOpen == <<"<", "D", "L", ">", "<", "p", ">">>
DlClose == <<"<", "/", "D", "L", ">", "<", "p", ">">>
AnchorOpen == <<"<", "A", " ", "H", "R", "E", "F", "=", "\"">>

\* the indent string of a line: 4 spaces per level
IndentText(indent) == [i \in 1..indent |-> "    "]

\* ` ADD_DATE="..."` or ` LAST_MODIFIED="..."`, or nothing
DateText(name, date) ==
  IF date = <<>> THEN <<>> ELSE <<name, ToString(date[1]), "\"">>

\* the text of one line of the file, character by character where the text
\* comes from the tree or is a list tag or the start of an anchor, and in
\* larger pieces elsewhere
LineText(tok) ==
  CASE tok.kind = "DOCTYPE" -> <<"<!DOCTYPE NETSCAPE-Bookmark-file-1> <META>", "\n">>
    [] tok.kind = "TITLE" -> <<"<TITLE>">> \o tok.text \o <<"</TITLE>", "\n">>
    [] tok.kind = "H1" -> <<"<H1>">> \o tok.text \o <<"</H1>", "\n">>
    [] tok.kind = "DL_OPEN" -> IndentText(tok.indent) \o DlOpen \o <<"\n">>
    [] tok.kind = "DL_CLOSE" -> IndentText(tok.indent) \o DlClose \o <<"\n">>
    [] tok.kind = "A" ->
         IndentText(tok.indent) \o <<"<DT>">> \o AnchorOpen \o tok.href \o <<"\"">>
           \o DateText(" ADD_DATE=\"", tok.date) \o <<">">> \o tok.text \o <<"</A>", "\n">>
    [] tok.kind = "H3" ->
         IndentText(tok.indent) \o <<"<DT><H3">> \o DateText(" LAST_MODIFIED=\"", tok.date)
           \o <<">">> \o tok.text \o <<"</H3>", "\n">>

\* the string exportAsHTML returns
HtmlText(lines) == Flatten([i \in 1..Len(lines) |-> LineText(lines[i])])

RECURSIVE JsonNode(_, _)
\* JSON.stringify of one node: members whose value is undefined are left out
JsonNode(node, indent) ==
  <<Tok("{", <<>>, <<>>, <<>>, indent),
    Tok("id", node.id, <<>>, <<>>, indent + 1),
    Tok("title", node.title, <<>>, <<>>, indent + 1)>>
  \o (IF node.url # <<>> THEN <<Tok("url", node.url, <<>>, <<>>, indent + 1)>> ELSE <<>>)
  \o (IF node.dateAdded # Undefined
      THEN <<Tok("dateAdded", <<>>, <<>>, <<node.dateAdded>>, indent + 1)>> ELSE <<>>)
  \o (IF node.dateGroupModified # Undefined
      THEN <<Tok("dateGroupModified", <<>>, <<>>, <<node.dateGroupModified>>, indent + 1)>>
      ELSE <<>>)
  \o (IF node.folder
      THEN <<Tok("children[", <<>>, <<>>, <<>>, indent + 1)>>
           \o Flatten([i \in 1..Len(node.children) |->
                        JsonNode(node.children[i], indent + 2)])
           \o <<Tok("]", <<>>, <<>>, <<>>, indent + 1)>>
      ELSE <<>>)
  \o <<Tok("}", <<>>, <<>>, <<>>, indent)>>

\* JSON.stringify(data, null, 2)
exportAsJSON(data) ==
  <<Tok("{", <<>>, <<>>, <<>>, 0),
    Tok("version", data.version, <<>>, <<>>, 1),
    Tok("exportDate", <<>>, <<>>, data.exportDate.date \o data.exportDate.time, 1),
    Tok("totalBookmarks", <<>>, <<>>, <<data.totalBookmarks>>, 1),
    Tok("bookmarks[", <<>>, <<>>, <<>>, 1)>>
  \o Flatten([i \in 1..Len(data.bookmarks) |-> JsonNode(data.bookmarks[i], 2)])
  \o <<Tok("]", <<>>, <<>>, <<>>, 1), Tok("}", <<>>, <<>>, <<>>, 0)>>

\* generateFilename(format): the date part is the first 10 characters of
\* toISOString() (UTC), the time part comes from toTimeString() (local)
generateFilename(format, now, utcOffset) ==
  [prefix |-> "bookmarks-backup", date |-> ToISOString(now, utcOffset).date,
   time |-> ToTimeString(now), ext |-> format]

\* new TextEncoder().encode(content).length, one unit per token
ByteLength(content) == Len(content)

(***************************************************************************)
(* Storage (lib/storage.ts).                                               *)
(***************************************************************************)
\* getSettings(): result[SETTINGS_KEY] || DEFAULT_SETTINGS.  The stored
\* record is a sequence of length 0 (no record) or 1.
getSettings(stored) == IF stored = <<>> THEN DEFAULT_SETTINGS ELSE stored[1]

\* history.slice(0, k)
Slice0(seq, k) == SubSeq(seq, 1, IF k < Len(seq) THEN k ELSE Len(seq))

TrimHistory_PushMutant(history, item, keepBackupCount) ==
  Slice0(history \o <<item>>, keepBackupCount)

\* history.unshift(item); history.slice(0, settings.keepBackupCount)
TrimHistory(history, item, keepBackupCount) ==
  Slice0(<<item>> \o history, keepBackupCount)

(***************************************************************************)
(* Background service worker (background/index.ts).                        *)
(***************************************************************************)
NoAlarm == Undefined
NoData == <<>>
NoItem ==
  [id |-> <<>>, timestamp |-> Undefined, filename |-> <<>>, bookmarkCount |-> Undefined,
   format |-> "", size |-> Undefined, data |-> NoData]

\* Date.now().toString()
NumberToString(n) == <<n>>

Runs == 1..MaxRuns

\* the zone of the browser: one hour east of UTC
LocalUtcOffset == SecPerHour

IsSpace(c) == c = " "

RECURSIVE TrimStart(_)
TrimStart(str) ==
  IF str # <<>> /\ IsSpace(Head(str)) THEN TrimStart(Tail(str)) ELSE str

RECURSIVE TrimEnd(_)
TrimEnd(str) ==
  IF str # <<>> /\ IsSpace(str[Len(str)]) THEN TrimEnd(SubSeq(str, 1, Len(str) - 1))
  ELSE str

\* settings.downloadFolder?.trim() || "BookmarkBackups"
DownloadFolder(settings) ==
  IF TrimEnd(TrimStart(settings.downloadFolder)) = <<>>
  THEN <<"BookmarkBackups">>
  ELSE TrimEnd(TrimStart(settings.downloadFolder))

\* the argument of chrome.downloads.download in downloadFile
DownloadRequest(content, filename, folder, saveAs) ==
  [size |-> ByteLength(content), folder |-> folder, filename |-> filename, saveAs |-> saveAs,
   conflictAction |-> "uniquify"]

NoResult == [status |-> "none", historyItem |-> NoItem, error |-> ""]

\* the locals of one invocation of performBackup, and what it did to the
\* directory handle provider and to the download sink
IdleRun ==
  [pc |-> "idle", trigger |-> "", settings |-> DEFAULT_SETTINGS, bookmarks |-> <<>>,
   filename |-> <<>>, content |-> <<>>, mimeType |-> "", historyItem |-> NoItem,
   savedToCustomDir |-> FALSE, history |-> <<>>, keepRead |-> Undefined,
   trimmedHistory |-> <<>>, updatedSettings |-> DEFAULT_SETTINGS,
   nextBackupTime |-> Undefined, scheduleResult |-> Undefined, result |-> NoResult,
   dirCalled |-> FALSE, dirWrites |-> <<>>, downloads |-> <<>>, customFailed |-> FALSE,
   downloadOk |-> FALSE, appended |-> FALSE]

Handlers == 1..MaxHandlers

\* the locals of one schedule handler: the onMessage branch "updateSchedule",
\* the onInstalled listener or the onStartup listener
IdleHandler ==
  [pc |-> "idle", kind |-> "", settings |-> DEFAULT_SETTINGS, nextBackup |-> Undefined,
   response |-> Undefined]

(***************************************************************************)
(* State.                                                                  *)
(***************************************************************************)
VARIABLES
  calcSettings,   \* scheduler specification: the settings passed
  calcNow,        \* scheduler specification: the instant of the call
  calcPc,         \* "call" | "returned" | "spinning"
  calcResult,     \* the value returned (Undefined before the return)
  now,            \* the clock: Date.now(), new Date()
  ticks,          \* advances of the clock so far
  bookmarkTree,   \* the bookmark store: what chrome.bookmarks.getTree yields
  kvSettings,     \* chrome.storage.local[SETTINGS_KEY]: <<>> or <<settings>>
  kvHistory,      \* chrome.storage.local[HISTORY_KEY] (absent is <<>>)
  alarm,          \* the scheduled time of the alarm ALARM_NAME, or NoAlarm
  runs,           \* the invocations of performBackup, by slot
  started,        \* invocations of performBackup so far
  uiSettings,     \* the `settings` state of the open options page or popup
  saves,          \* settings saved by the page so far
  requests,       \* "updateSchedule" messages sent and not yet received
  handlers,       \* the schedule handlers of the worker, by slot
  serPc,          \* serializer specification: "call" | "returned" | "off"
  serCount,       \* serializer specification: countBookmarks of the tree
  serHtml,        \* serializer specification: exportAsHTML of the backup data
  nameNow,        \* filename specification: the instant of the call (local time)
  nameOffset,     \* filename specification: local time minus UTC, in seconds
  nameFormat,     \* filename specification: the format passed
  namePc,         \* filename specification: "call" | "returned" | "off"
  nameResult      \* filename specification: the filename returned

calcVars == <<calcSettings, calcNow, calcPc, calcResult>>
serVars == <<serPc, serCount, serHtml>>
nameVars == <<nameNow, nameOffset, nameFormat, namePc, nameResult>>
pureVars == <<calcSettings, calcNow, calcPc, calcResult, serPc, serCount, serHtml,
              nameNow, nameOffset, nameFormat, namePc, nameResult>>
pageVars == <<uiSettings, saves, requests>>
workerVars == <<now, ticks, bookmarkTree, kvSettings, kvHistory, alarm, runs, started,
                uiSettings, saves, requests, handlers>>
vars == <<calcSettings, calcNow, calcPc, calcResult,
          now, ticks, bookmarkTree, kvSettings, kvHistory, alarm, runs, started,
          uiSettings, saves, requests, handlers, serPc, serCount, serHtml,
          nameNow, nameOffset, nameFormat, namePc, nameResult>>

(***************************************************************************)
(* Scheduler specification: calculateNextBackupTime as a function of the   *)
(* settings and of the instant of the call.                                *)
(***************************************************************************)
CalcTimes == {MakeDate(Epoch.year, 0, 1, 0, 0, 0), MakeDate(Epoch.year, 0, 1, 8, 59, 59),
              MakeDate(Epoch.year, 0, 1, 9, 0, 0), MakeDate(Epoch.year, 0, 1, 9, 0, 1),
              MakeDate(Epoch.year, 0, 1, 23, 59, 59)}
CalcNows == {d * SecPerDay + s : d \in CalcFirstDay..CalcLastDay, s \in CalcTimes}
CalcBackupTimes == {BackupTime(9, 0), BackupTime(0, 0)}

CalcRules ==
  [frequency : {"daily"}, backupDay : {0}, customIntervalDays : {Undefined}]
  \cup [frequency : {"weekly"}, backupDay : 0..6 \cup {Undefined},
        customIntervalDays : {Undefined}]
  \cup [frequency : {"monthly"}, backupDay : 0..31 \cup {Undefined},
        customIntervalDays : {Undefined}]
  \cup [frequency : {"custom"}, backupDay : {0}, customIntervalDays : {Undefined, 1, 3}]

CalcSettings ==
  {[DEFAULT_SETTINGS EXCEPT !.frequency = r.frequency, !.backupDay = r.backupDay,
                            !.customIntervalDays = r.customIntervalDays,
                            !.backupTime = bt] : r \in CalcRules, bt \in CalcBackupTimes}

\* the instant at which the behaviours of the worker begin: Sunday 28 April
\* 2024, 08:59:59, one second before the default backupTime
StartNow == MakeDate(2024, 3, 28, 8, 59, 59)

CalcOff ==
  /\ calcSettings = DEFAULT_SETTINGS
  /\ calcNow = 0
  /\ calcPc = "off"
  /\ calcResult = Undefined

WorkerOff ==
  /\ now = 0
  /\ ticks = 0
  /\ bookmarkTree = <<>>
  /\ kvSettings = <<>>
  /\ kvHistory = <<>>
  /\ alarm = NoAlarm
  /\ runs = [r \in Runs |-> IdleRun]
  /\ started = 0
  /\ uiSettings = DEFAULT_SETTINGS
  /\ saves = 0
  /\ requests = 0
  /\ handlers = [h \in Handlers |-> IdleHandler]

SerOff ==
  /\ serPc = "off"
  /\ serCount = Undefined
  /\ serHtml = <<>>

NoName == [prefix |-> "", date |-> <<>>, time |-> <<>>, ext |-> ""]

NameOff ==
  /\ nameNow = 0
  /\ nameOffset = 0
  /\ nameFormat = ""
  /\ namePc = "off"
  /\ nameResult = NoName

CalcInit ==
  /\ calcSettings \in CalcSettings
  /\ calcNow \in CalcNows
  /\ calcPc = "call"
  /\ calcResult = Undefined
  /\ WorkerOff
  /\ SerOff
  /\ NameOff

CalcReturn ==
  /\ calcPc = "call"
  /\ calculateNextBackupTime(calcSettings, calcNow) # Diverges
  /\ calcPc' = "returned"
  /\ calcResult' = calculateNextBackupTime(calcSettings, calcNow)
  /\ UNCHANGED <<calcSettings, calcNow>>
  /\ UNCHANGED workerVars
  /\ UNCHANGED serVars
  /\ UNCHANGED nameVars

CalcSpin ==
  /\ calcPc = "call"
  /\ calculateNextBackupTime(calcSettings, calcNow) = Diverges
  /\ calcPc' = "spinning"
  /\ UNCHANGED <<calcSettings, calcNow, calcResult>>
  /\ UNCHANGED workerVars
  /\ UNCHANGED serVars
  /\ UNCHANGED nameVars

CalcNext == CalcReturn \/ CalcSpin

CalcSpec == CalcInit /\ [][CalcNext]_vars

(***************************************************************************)
(* Serializer specification: countBookmarks and exportAsHTML as functions  *)
(* of the bookmark tree.  A tree is a root folder with up to MaxNodes      *)
(* nodes below it; node i hangs under the root (0) or under an earlier     *)
(* node that is a folder.  As chrome.bookmarks.getTree delivers them, a    *)
(* node with a url has no children.                                        *)
(***************************************************************************)
\* a bookmark, a titled folder, a folder without title, a node with neither
\* url nor title nor children
NodeKinds == {"link", "folder", "group", "blank"}

TreeShapes ==
  UNION {{[n |-> n, parent |-> p, kind |-> k] :
            p \in {q \in [1..n -> 0..n] :
                     \A i \in 1..n : q[i] < i},
            k \in [1..n -> NodeKinds]} : n \in 0..MaxNodes}

\* the children of a node are folders' only
WellShaped(s) ==
  \A i \in 1..s.n : s.parent[i] = 0 \/ s.kind[s.parent[i]] \in {"folder", "group"}

\* titles and urls made of the characters the export writes itself
TagTitle == DlOpen
LinkTitle == DlClose \o <<"&", "'">>
LinkUrl == <<"u", "\"", ">">> \o AnchorOpen

RECURSIVE ShapeNode(_, _)
\* node i of shape s, with the nodes below it
ShapeNode(s, i) ==
  LET IsChild(j) == s.parent[j] = i
      kids == SelectSeq([j \in 1..s.n |-> j], IsChild)
      children == [k \in 1..Len(kids) |-> ShapeNode(s, kids[k])]
  IN IF i = 0 THEN Folder(NumberToString(0), <<>>, Undefined, children)
     ELSE CASE s.kind[i] = "link" ->
                 Bookmark(NumberToString(i), LinkTitle, LinkUrl, StartNow + i)
            [] s.kind[i] = "folder" ->
                 Folder(NumberToString(i), TagTitle, StartNow + i, children)
            [] s.kind[i] = "group" ->
                 Folder(NumberToString(i), <<>>, Undefined, children)
            [] s.kind[i] = "blank" ->
                 Bookmark(NumberToString(i), <<>>, <<>>, Undefined)

Trees == {<<ShapeNode(s, 0)>> : s \in {x \in TreeShapes : WellShaped(x)}}

SerInit ==
  /\ CalcOff
  /\ now = StartNow
  /\ ticks = 0
  /\ bookmarkTree \in Trees
  /\ kvSettings = <<>>
  /\ kvHistory = <<>>
  /\ alarm = NoAlarm
  /\ runs = [r \in Runs |-> IdleRun]
  /\ started = 0
  /\ uiSettings = DEFAULT_SETTINGS
  /\ saves = 0
  /\ requests = 0
  /\ handlers = [h \in Handlers |-> IdleHandler]
  /\ serPc = "call"
  /\ serCount = Undefined
  /\ serHtml = <<>>
  /\ NameOff

\* countBookmarks(bookmarks) and exportAsHTML(createBackupData(bookmarks))
SerReturn ==
  /\ serPc = "call"
  /\ serPc' = "returned"
  /\ serCount' = countBookmarks(bookmarkTree)
  /\ serHtml' = HtmlText(exportAsHTML(createBackupData(bookmarkTree, now, LocalUtcOffset)))
  /\ UNCHANGED <<calcSettings, calcNow, calcPc, calcResult>>
  /\ UNCHANGED workerVars
  /\ UNCHANGED nameVars

SerNext == SerReturn

SerSpec == SerInit /\ [][SerNext]_vars

(***************************************************************************)
(* Filename specification: generateFilename as a function of the format,   *)
(* of the instant of the call and of the UTC offset of the local zone.     *)
(***************************************************************************)
NameTimes == {MakeDate(Epoch.year, 0, 1, 0, 0, 0), MakeDate(Epoch.year, 0, 1, 0, 30, 0),
              MakeDate(Epoch.year, 0, 1, 4, 59, 59), MakeDate(Epoch.year, 0, 1, 5, 0, 0),
              MakeDate(Epoch.year, 0, 1, 12, 0, 0), MakeDate(Epoch.year, 0, 1, 18, 29, 59),
              MakeDate(Epoch.year, 0, 1, 18, 30, 0), MakeDate(Epoch.year, 0, 1, 23, 59, 59)}
NameNows == {d * SecPerDay + s : d \in NameFirstDay..NameLastDay, s \in NameTimes}
\* New York (winter), UTC, Paris (winter), India
UtcOffsets == {0 - 5 * SecPerHour, 0, SecPerHour, 5 * SecPerHour + 30 * SecPerMin}

NameInit ==
  /\ CalcOff
  /\ SerOff
  /\ WorkerOff
  /\ nameNow \in NameNows
  /\ nameOffset \in UtcOffsets
  /\ nameFormat \in {"json", "html"}
  /\ namePc = "call"
  /\ nameResult = NoName

\* generateFilename(format)
NameReturn ==
  /\ namePc = "call"
  /\ namePc' = "returned"
  /\ nameResult' = generateFilename(nameFormat, nameNow, nameOffset)
  /\ UNCHANGED <<nameNow, nameOffset, nameFormat>>
  /\ UNCHANGED <<calcSettings, calcNow, calcPc, calcResult>>
  /\ UNCHANGED serVars
  /\ UNCHANGED workerVars

NameNext == NameReturn

NameSpec == NameInit /\ [][NameNext]_vars

(***************************************************************************)
(* The service worker.  JavaScript runs one task at a time: an action is   *)
(* the completion of the chrome call a handler awaits, followed by the     *)
(* handler's code up to its next await.  A handler inside the clamping     *)
(* loop of calculateNextBackupTime ("spinning") never yields, so no other  *)
(* task of the worker runs.                                                *)
(***************************************************************************)
Blocked ==
  \/ \E r \in Runs : runs[r].pc = "spinning"
  \/ \E h \in Handlers : handlers[h].pc = "spinning"

\* the invocation is over: its locals are gone; what it was started with and
\* what it did to the sinks stay on record until the slot is used again
Returned(R) ==
  [R EXCEPT !.pc = "idle", !.bookmarks = <<>>, !.content = <<>>, !.history = <<>>,
            !.trimmedHistory = <<>>]

\* return { success: true, historyItem }
ReturnSuccess(R) ==
  [Returned(R) EXCEPT
            !.result = [status |-> "success", historyItem |-> R.historyItem, error |-> ""]]

\* catch (error) { return { success: false, error: String(error) } }
ReturnFailure(R, error) ==
  [Returned(R) EXCEPT
            !.result = [status |-> "failure", historyItem |-> NoItem, error |-> error]]

\* downloadFile(content, filename, mimeType, folder, false) is called
CallDownload(R) ==
  [R EXCEPT !.pc = "download",
            !.downloads = @ \o <<DownloadRequest(R.content, R.filename,
                                                 DownloadFolder(R.settings), FALSE)>>]

OnCustomDirFailure_ThrowMutant(R) ==
  ReturnFailure([R EXCEPT !.customFailed = TRUE], "custom directory")

\* the custom directory was not written (no handle, no permission, or an
\* error caught by the inner catch): savedToCustomDir is false, fall back
OnCustomDirFailure(R) == CallDownload([R EXCEPT !.customFailed = TRUE])

StorageBranch_AlwaysDownloadMutant(R) ==
  IF R.settings.useCustomDirectory
  THEN [R EXCEPT !.pc = "getDirectoryHandle", !.dirCalled = TRUE]
  ELSE CallDownload(R)

StorageBranch_KeepsDataMutant(R) ==
  IF R.settings.storageMode = "extension"
  THEN [R EXCEPT !.historyItem.data = R.content, !.pc = "getBackupHistory"]
  ELSE IF R.settings.autoDownload
  THEN IF R.settings.useCustomDirectory
       THEN [R EXCEPT !.pc = "getDirectoryHandle", !.dirCalled = TRUE]
       ELSE CallDownload(R)
  ELSE [R EXCEPT !.historyItem.data = R.content, !.pc = "getBackupHistory"]

\* the branch on storageMode and autoDownload, up to the next await
StorageBranch(R) ==
  IF R.settings.storageMode = "extension"
  THEN [R EXCEPT !.historyItem.data = R.content, !.pc = "getBackupHistory"]
  ELSE IF R.settings.autoDownload
  THEN IF R.settings.useCustomDirectory
       THEN [R EXCEPT !.pc = "getDirectoryHandle", !.dirCalled = TRUE]
       ELSE CallDownload(R)
  ELSE [R EXCEPT !.pc = "getBackupHistory"]

\* the first idle slot
FreeSlot == CHOOSE r \in Runs : runs[r].pc = "idle" /\ \A q \in Runs : runs[q].pc = "idle" => r <= q

CanStart == ~Blocked /\ started < MaxStarts /\ \E r \in Runs : runs[r].pc = "idle"

\* a "performBackup" message from the popup: performBackup() begins
ManualBackup ==
  /\ CanStart
  /\ runs' = [runs EXCEPT ![FreeSlot] =
                [IdleRun EXCEPT !.pc = "getSettings", !.trigger = "manual"]]
  /\ started' = started + 1
  /\ UNCHANGED <<now, ticks, bookmarkTree, kvSettings, kvHistory, alarm>>
  /\ UNCHANGED <<uiSettings, saves, requests, handlers>>
  /\ UNCHANGED pureVars

\* the alarm is due: chrome removes the one-shot alarm and raises onAlarm,
\* whose listener calls performBackup()
AlarmFires ==
  /\ CanStart
  /\ alarm # NoAlarm
  /\ alarm <= now
  /\ alarm' = NoAlarm
  /\ runs' = [runs EXCEPT ![FreeSlot] =
                [IdleRun EXCEPT !.pc = "getSettings", !.trigger = "timer"]]
  /\ started' = started + 1
  /\ UNCHANGED <<now, ticks, bookmarkTree, kvSettings, kvHistory>>
  /\ UNCHANGED <<uiSettings, saves, requests, handlers>>
  /\ UNCHANGED pureVars

\* const settings = await getSettings()
GetSettings(r) ==
  /\ ~Blocked
  /\ runs[r].pc = "getSettings"
  /\ runs' = [runs EXCEPT ![r] = [@ EXCEPT !.settings = getSettings(kvSettings),
                                           !.pc = "getAllBookmarks"]]
  /\ UNCHANGED <<now, ticks, bookmarkTree, kvSettings, kvHistory, alarm, started>>
  /\ UNCHANGED <<uiSettings, saves, requests, handlers>>
  /\ UNCHANGED pureVars

\* the locals built between getAllBookmarks() and the storage branch
BuildBackup(R, bookmarks, t) ==
  LET backupData == createBackupData(bookmarks, t, LocalUtcOffset)
      content == IF R.settings.format = "json" THEN exportAsJSON(backupData)
                 ELSE exportAsHTML(backupData)
  IN [R EXCEPT !.bookmarks = bookmarks,
               !.filename = generateFilename(R.settings.format, t, LocalUtcOffset),
               !.content = content,
               !.mimeType = IF R.settings.format = "json" THEN "application/json"
                            ELSE "text/html",
               !.historyItem =
                  [id |-> NumberToString(t), timestamp |-> t,
                   filename |-> generateFilename(R.settings.format, t, LocalUtcOffset),
                   bookmarkCount |-> backupData.totalBookmarks,
                   format |-> R.settings.format, size |-> ByteLength(content),
                   data |-> NoData]]

\* const bookmarks = await getAllBookmarks(), then the code up to the await
\* of the storage branch
GetAllBookmarks(r) ==
  /\ ~Blocked
  /\ runs[r].pc = "getAllBookmarks"
  /\ runs' = [runs EXCEPT ![r] = StorageBranch(BuildBackup(@, bookmarkTree, now))]
  /\ UNCHANGED <<now, ticks, bookmarkTree, kvSettings, kvHistory, alarm, started>>
  /\ UNCHANGED <<uiSettings, saves, requests, handlers>>
  /\ UNCHANGED pureVars

\* const dirHandle = await getDirectoryHandle(): a handle, null, or a
\* rejection (the request's onerror), which the inner catch takes
GetDirectoryHandle(r) ==
  /\ ~Blocked
  /\ runs[r].pc = "getDirectoryHandle"
  /\ \E outcome \in {"handle", "null", "error"} :
       runs' = [runs EXCEPT ![r] =
                  IF outcome = "handle"
                  THEN [@ EXCEPT !.pc = "verifyDirectoryPermission", !.dirCalled = TRUE]
                  ELSE OnCustomDirFailure(@)]
  /\ UNCHANGED <<now, ticks, bookmarkTree, kvSettings, kvHistory, alarm, started>>
  /\ UNCHANGED <<uiSettings, saves, requests, handlers>>
  /\ UNCHANGED pureVars

\* const hasPermission = await verifyDirectoryPermission(dirHandle)
VerifyDirectoryPermission(r) ==
  /\ ~Blocked
  /\ runs[r].pc = "verifyDirectoryPermission"
  /\ \E hasPermission \in BOOLEAN :
       runs' = [runs EXCEPT ![r] =
                  IF hasPermission
                  THEN [@ EXCEPT !.pc = "writeFileToDirectory", !.dirCalled = TRUE]
                  ELSE OnCustomDirFailure(@)]
  /\ UNCHANGED <<now, ticks, bookmarkTree, kvSettings, kvHistory, alarm, started>>
  /\ UNCHANGED <<uiSettings, saves, requests, handlers>>
  /\ UNCHANGED pureVars

WriteFileToDirectory_NoShortCircuitMutant(r) ==
  /\ ~Blocked
  /\ runs[r].pc = "writeFileToDirectory"
  /\ \E outcome \in {"written", "denied", "error"} :
       runs' = [runs EXCEPT ![r] =
                  IF outcome = "written"
                  THEN CallDownload([@ EXCEPT !.savedToCustomDir = TRUE,
                                              !.dirWrites = @ \o <<[filename |-> runs[r].filename,
                                                                    size |-> ByteLength(runs[r].content)]>>])
                  ELSE OnCustomDirFailure(@)]
  /\ UNCHANGED <<now, ticks, bookmarkTree, kvSettings, kvHistory, alarm, started>>
  /\ UNCHANGED <<uiSettings, saves, requests, handlers>>
  /\ UNCHANGED pureVars

\* await writeFileToDirectory(...): its own permission check (which throws
\* when the permission is gone), then getFileHandle, createWritable, write
\* and close, any of which may reject
WriteFileToDirectory(r) ==
  /\ ~Blocked
  /\ runs[r].pc = "writeFileToDirectory"
  /\ \E outcome \in {"written", "denied", "error"} :
       runs' = [runs EXCEPT ![r] =
                  IF outcome = "written"
                  THEN [@ EXCEPT !.savedToCustomDir = TRUE,
                                 !.dirWrites = @ \o <<[filename |-> runs[r].filename,
                                                       size |-> ByteLength(runs[r].content)]>>,
                                 !.pc = "getBackupHistory"]
                  ELSE OnCustomDirFailure(@)]
  /\ UNCHANGED <<now, ticks, bookmarkTree, kvSettings, kvHistory, alarm, started>>
  /\ UNCHANGED <<uiSettings, saves, requests, handlers>>
  /\ UNCHANGED pureVars

Download_AppendsFirstMutant(r) ==
  /\ ~Blocked
  /\ runs[r].pc = "download"
  /\ kvHistory' = <<runs[r].historyItem>> \o kvHistory
  /\ \E ok \in BOOLEAN :
       runs' = [runs EXCEPT ![r] =
                  IF ok THEN [@ EXCEPT !.downloadOk = TRUE, !.pc = "getBackupHistory"]
                  ELSE ReturnFailure(@, "download")]
  /\ UNCHANGED <<now, ticks, bookmarkTree, kvSettings, alarm, started>>
  /\ UNCHANGED <<uiSettings, saves, requests, handlers>>
  /\ UNCHANGED pureVars

\* the callback of chrome.downloads.download: resolve, or reject with
\* chrome.runtime.lastError, which the outer catch takes
Download(r) ==
  /\ ~Blocked
  /\ runs[r].pc = "download"
  /\ \E ok \in BOOLEAN :
       runs' = [runs EXCEPT ![r] =
                  IF ok THEN [@ EXCEPT !.downloadOk = TRUE, !.pc = "getBackupHistory"]
                  ELSE ReturnFailure(@, "download")]
  /\ UNCHANGED <<now, ticks, bookmarkTree, kvSettings, kvHistory, alarm, started>>
  /\ UNCHANGED <<uiSettings, saves, requests, handlers>>
  /\ UNCHANGED pureVars

\* addBackupToHistory: const history = await getBackupHistory()
GetBackupHistory(r) ==
  /\ ~Blocked
  /\ runs[r].pc = "getBackupHistory"
  /\ runs' = [runs EXCEPT ![r] = [@ EXCEPT !.history = kvHistory,
                                           !.pc = "getHistorySettings"]]
  /\ UNCHANGED <<now, ticks, bookmarkTree, kvSettings, kvHistory, alarm, started>>
  /\ UNCHANGED <<uiSettings, saves, requests, handlers>>
  /\ UNCHANGED pureVars

\* addBackupToHistory: const settings = await getSettings(), unshift, slice
GetHistorySettings(r) ==
  /\ ~Blocked
  /\ runs[r].pc = "getHistorySettings"
  /\ runs' = [runs EXCEPT ![r] =
                [@ EXCEPT !.keepRead = getSettings(kvSettings).keepBackupCount,
                          !.trimmedHistory =
                             TrimHistory(runs[r].history, runs[r].historyItem,
                                         getSettings(kvSettings).keepBackupCount),
                          !.pc = "setHistory"]]
  /\ UNCHANGED <<now, ticks, bookmarkTree, kvSettings, kvHistory, alarm, started>>
  /\ UNCHANGED <<uiSettings, saves, requests, handlers>>
  /\ UNCHANGED pureVars

\* updatedSettings = { ...settings, lastBackup: Date.now(),
\*                     nextBackup: calculateNextBackupTime(settings) }
UpdateSettings(R, t) ==
  IF calculateNextBackupTime(R.settings, t) = Diverges
  THEN [R EXCEPT !.pc = "spinning"]
  ELSE [R EXCEPT !.updatedSettings =
                    [R.settings EXCEPT !.lastBackup = t,
                                       !.nextBackup = calculateNextBackupTime(R.settings, t)],
                 !.pc = "saveSettings"]

\* addBackupToHistory: chrome.storage.local.set({[HISTORY_KEY]: trimmedHistory}),
\* then performBackup builds updatedSettings
SetHistory(r) ==
  /\ ~Blocked
  /\ runs[r].pc = "setHistory"
  /\ kvHistory' = runs[r].trimmedHistory
  /\ runs' = [runs EXCEPT ![r] = UpdateSettings([@ EXCEPT !.appended = TRUE], now)]
  /\ UNCHANGED <<now, ticks, bookmarkTree, kvSettings, alarm, started>>
  /\ UNCHANGED <<uiSettings, saves, requests, handlers>>
  /\ UNCHANGED pureVars

\* await saveSettings(updatedSettings); scheduleBackup(updatedSettings) is called
SaveSettings(r) ==
  /\ ~Blocked
  /\ runs[r].pc = "saveSettings"
  /\ kvSettings' = <<runs[r].updatedSettings>>
  /\ runs' = [runs EXCEPT ![r] = [@ EXCEPT !.pc = "alarmsClear"]]
  /\ UNCHANGED <<now, ticks, bookmarkTree, kvHistory, alarm, started>>
  /\ UNCHANGED <<uiSettings, saves, requests, handlers>>
  /\ UNCHANGED pureVars

ShouldArm_AlwaysMutant(settings) == TRUE

\* scheduleBackup: if (!settings.enabled) return 0
ShouldArm(settings) == settings.enabled

\* scheduleBackup(settings) after its await of chrome.alarms.clear
AfterAlarmsClear(R, settings, t) ==
  IF ~ShouldArm(settings)
  THEN ReturnSuccess([R EXCEPT !.scheduleResult = 0])
  ELSE IF calculateNextBackupTime(settings, t) = Diverges
  THEN [R EXCEPT !.pc = "spinning"]
  ELSE [R EXCEPT !.nextBackupTime = calculateNextBackupTime(settings, t),
                 !.pc = "alarmsCreate"]

\* scheduleBackup: await chrome.alarms.clear(ALARM_NAME)
AlarmsClear(r) ==
  /\ ~Blocked
  /\ runs[r].pc = "alarmsClear"
  /\ alarm' = NoAlarm
  /\ runs' = [runs EXCEPT ![r] = AfterAlarmsClear(@, @.updatedSettings, now)]
  /\ UNCHANGED <<now, ticks, bookmarkTree, kvSettings, kvHistory, started>>
  /\ UNCHANGED <<uiSettings, saves, requests, handlers>>
  /\ UNCHANGED pureVars

\* scheduleBackup: await chrome.alarms.create(ALARM_NAME, {when}); return
AlarmsCreate(r) ==
  /\ ~Blocked
  /\ runs[r].pc = "alarmsCreate"
  /\ alarm' = runs[r].nextBackupTime
  /\ runs' = [runs EXCEPT ![r] =
                ReturnSuccess([@ EXCEPT !.scheduleResult = runs[r].nextBackupTime])]
  /\ UNCHANGED <<now, ticks, bookmarkTree, kvSettings, kvHistory, started>>
  /\ UNCHANGED <<uiSettings, saves, requests, handlers>>
  /\ UNCHANGED pureVars

\* time passes: one second, or until the alarm is due
Tick ==
  /\ ticks < MaxTicks
  /\ ticks' = ticks + 1
  /\ now' \in {now + 1} \cup (IF alarm # NoAlarm /\ alarm > now THEN {alarm} ELSE {})
  /\ UNCHANGED <<bookmarkTree, kvSettings, kvHistory, alarm, runs, started>>
  /\ UNCHANGED <<uiSettings, saves, requests, handlers>>
  /\ UNCHANGED pureVars

(***************************************************************************)
(* The options page and the popup (another thread than the worker's), and  *)
(* the schedule handlers of the worker.                                    *)
(***************************************************************************)
\* updateSetting("enabled", v) of the options page, handleToggleEnabled(v) of
\* the popup: newSettings = {...settings, enabled: v}
ToggleEnabled(settings) == [settings EXCEPT !.enabled = ~settings.enabled]

\* updateSetting("keepBackupCount", parseInt(value)) of the options page
SetKeepBackupCount(settings, count) == [settings EXCEPT !.keepBackupCount = count]

\* the counts of the "Keep Recent Backups" select that the model uses
KeepCounts == {3, 5}

\* what the page can make of its settings with one change of a control
UiChanges(settings) ==
  {ToggleEnabled(settings)}
    \cup {SetKeepBackupCount(settings, c) : c \in KeepCounts \ {settings.keepBackupCount}}

\* the page sets its state, saves newSettings and sends "updateSchedule"
UpdateSetting ==
  /\ saves < MaxSaves
  /\ saves' = saves + 1
  /\ \E newSettings \in UiChanges(uiSettings) :
       /\ uiSettings' = newSettings
       /\ kvSettings' = <<newSettings>>
  /\ requests' = requests + 1
  /\ UNCHANGED <<now, ticks, bookmarkTree, kvHistory, alarm, runs, started, handlers>>
  /\ UNCHANGED pureVars

\* the first idle handler slot
FreeHandler ==
  CHOOSE h \in Handlers :
    handlers[h].pc = "idle" /\ \A q \in Handlers : handlers[q].pc = "idle" => h <= q

\* onMessage receives "updateSchedule" and calls getSettings()
OnUpdateSchedule ==
  /\ ~Blocked
  /\ requests > 0
  /\ \E h \in Handlers : handlers[h].pc = "idle"
  /\ requests' = requests - 1
  /\ handlers' = [handlers EXCEPT ![FreeHandler] =
                    [IdleHandler EXCEPT !.pc = "getSettings", !.kind = "updateSchedule"]]
  /\ UNCHANGED <<now, ticks, bookmarkTree, kvSettings, kvHistory, alarm, runs, started,
                 uiSettings, saves>>
  /\ UNCHANGED pureVars

\* the browser starts, before anything else happens in the worker: the
\* onStartup listener calls getSettings()
OnStartup ==
  /\ \A r \in Runs : runs[r] = IdleRun
  /\ \A h \in Handlers : handlers[h] = IdleHandler
  /\ saves = 0
  /\ requests = 0
  /\ handlers' = [handlers EXCEPT ![FreeHandler] =
                    [IdleHandler EXCEPT !.pc = "getSettings", !.kind = "startup"]]
  /\ UNCHANGED <<now, ticks, bookmarkTree, kvSettings, kvHistory, alarm, runs, started,
                 uiSettings, saves, requests>>
  /\ UNCHANGED pureVars

\* the handler's getSettings() resolves; scheduleBackup(settings) is called
HandlerGetSettings(h) ==
  /\ ~Blocked
  /\ handlers[h].pc = "getSettings"
  /\ handlers' = [handlers EXCEPT ![h] = [@ EXCEPT !.settings = getSettings(kvSettings),
                                                   !.pc = "alarmsClear"]]
  /\ UNCHANGED <<now, ticks, bookmarkTree, kvSettings, kvHistory, alarm, runs, started,
                 uiSettings, saves, requests>>
  /\ UNCHANGED pureVars

\* sendResponse({ success: true, nextBackup }) of the "updateSchedule" branch
\* (onInstalled and onStartup respond to nobody); the handler is over
Respond(H, nextBackup) ==
  [H EXCEPT !.pc = "idle",
            !.response = IF H.kind = "updateSchedule" THEN nextBackup ELSE Undefined]

\* scheduleBackup(settings) of a handler after its await of chrome.alarms.clear:
\* with enabled false it returns 0, so nothing is saved and 0 is the response
HandlerAfterClear(H, t) ==
  IF ~ShouldArm(H.settings)
  THEN Respond([H EXCEPT !.nextBackup = 0], 0)
  ELSE IF calculateNextBackupTime(H.settings, t) = Diverges
  THEN [H EXCEPT !.pc = "spinning"]
  ELSE [H EXCEPT !.nextBackup = calculateNextBackupTime(H.settings, t),
                 !.pc = "alarmsCreate"]

\* scheduleBackup of a handler: await chrome.alarms.clear(ALARM_NAME)
HandlerAlarmsClear(h) ==
  /\ ~Blocked
  /\ handlers[h].pc = "alarmsClear"
  /\ alarm' = NoAlarm
  /\ handlers' = [handlers EXCEPT ![h] = HandlerAfterClear(@, now)]
  /\ UNCHANGED <<now, ticks, bookmarkTree, kvSettings, kvHistory, runs, started,
                 uiSettings, saves, requests>>
  /\ UNCHANGED pureVars

\* scheduleBackup of a handler: await chrome.alarms.create; nextBackup is the
\* time returned, and saveSettings({...settings, nextBackup}) is called; the
\* onStartup listener saves nothing and is over
HandlerAlarmsCreate(h) ==
  /\ ~Blocked
  /\ handlers[h].pc = "alarmsCreate"
  /\ alarm' = handlers[h].nextBackup
  /\ handlers' = [handlers EXCEPT ![h] =
                    IF handlers[h].kind = "startup" THEN Respond(@, handlers[h].nextBackup)
                    ELSE [@ EXCEPT !.pc = "saveSettings"]]
  /\ UNCHANGED <<now, ticks, bookmarkTree, kvSettings, kvHistory, runs, started,
                 uiSettings, saves, requests>>
  /\ UNCHANGED pureVars

WithNextBackup_LastBackupMutant(settings, nextBackup) ==
  [settings EXCEPT !.nextBackup = nextBackup, !.lastBackup = nextBackup]

\* { ...settings, nextBackup }
WithNextBackup(settings, nextBackup) == [settings EXCEPT !.nextBackup = nextBackup]

\* await saveSettings({ ...settings, nextBackup }), then the response
HandlerSaveSettings(h) ==
  /\ ~Blocked
  /\ handlers[h].pc = "saveSettings"
  /\ kvSettings' = <<WithNextBackup(handlers[h].settings, handlers[h].nextBackup)>>
  /\ handlers' = [handlers EXCEPT ![h] = Respond(@, handlers[h].nextBackup)]
  /\ UNCHANGED <<now, ticks, bookmarkTree, kvHistory, alarm, runs, started,
                 uiSettings, saves, requests>>
  /\ UNCHANGED pureVars

(***************************************************************************)
(* Initial states: the settings the options page has stored, the ledger    *)
(* left by earlier runs, the bookmark tree, and the alarm as the last      *)
(* updateSchedule request left it.                                         *)
(***************************************************************************)
\* a tree with 3 bookmarks in 2 folders, and a tree with a folder and no bookmark
Tree3 ==
  <<Folder(<<"0">>, <<>>, Undefined,
           <<Folder(<<"1">>, <<"B", "a", "r">>, StartNow - SecPerDay,
                    <<Bookmark(<<"3">>, <<"a", "&", "b">>, <<"u", "?", "\"">>,
                               StartNow - SecPerDay),
                      Bookmark(<<"4">>, <<"c">>, <<"v">>, Undefined)>>),
             Folder(<<"2">>, <<"O", "t", "h", "e", "r">>, Undefined,
                    <<Bookmark(<<"5">>, <<>>, <<"w">>, StartNow - SecPerHour)>>)>>)>>

Tree0 ==
  <<Folder(<<"0">>, <<>>, Undefined,
           <<Folder(<<"1">>, <<"B", "a", "r">>, Undefined, <<>>)>>)>>

\* the settings s after the options page has updated these fields
With(s, frequency, backupDay, format, storageMode, autoDownload, useCustomDirectory, downloadFolder, keepBackupCount) ==
  [s EXCEPT !.frequency = frequency, !.backupDay = backupDay, !.format = format,
            !.storageMode = storageMode, !.autoDownload = autoDownload,
            !.useCustomDirectory = useCustomDirectory,
            !.downloadFolder = downloadFolder, !.keepBackupCount = keepBackupCount]

\* the item of the run made k days before StartNow (download mode, no data)
OldItem(k) ==
  LET t == StartNow - k * SecPerDay
      content == exportAsHTML(createBackupData(<<>>, t, LocalUtcOffset))
  IN [id |-> NumberToString(t), timestamp |-> t,
      filename |-> generateFilename("html", t, LocalUtcOffset),
      bookmarkCount |-> 0, format |-> "html", size |-> ByteLength(content),
      data |-> NoData]

OldHistory(n) == [i \in 1..n |-> OldItem(i)]

\* what scheduleBackup(settings) left in the alarm slot
ScheduledFor(settings, t) ==
  IF settings.enabled /\ calculateNextBackupTime(settings, t) # Diverges
  THEN calculateNextBackupTime(settings, t)
  ELSE NoAlarm

\* an initial state: the stored settings, the settings the alarm slot was
\* last scheduled for (the same, unless the updateSchedule request that
\* follows a save has not been handled), the number of items of the ledger
\* and the bookmark tree
Scenario(settings, scheduledFor, old, tree) ==
  [settings |-> settings, scheduledFor |-> scheduledFor, old |-> old, tree |-> tree]

Current(settings, old, tree) == Scenario(settings, settings, old, tree)

Scenarios ==
  {Current(DEFAULT_SETTINGS, 0, Tree3),
   Scenario([DEFAULT_SETTINGS EXCEPT !.enabled = FALSE], DEFAULT_SETTINGS, MaxOld, Tree3),
   Current([DEFAULT_SETTINGS EXCEPT !.frequency = "monthly"], 0, Tree0),
   Current(With(DEFAULT_SETTINGS, "weekly", 0, "json", "extension", TRUE, TRUE,
                <<"BookmarkBackups">>, 3), MaxOld, Tree3),
   Current(With(DEFAULT_SETTINGS, "daily", 0, "html", "download", TRUE, FALSE,
                <<"BookmarkBackups">>, 5), MaxOld, Tree0),
   Current(With(DEFAULT_SETTINGS, "daily", 0, "json", "download", TRUE, TRUE,
                <<" ">>, 3), MaxOld, Tree3),
   Current(With(DEFAULT_SETTINGS, "monthly", 28, "html", "download", TRUE, FALSE,
                <<" ", "M", "y", " ">>, 5), 0, Tree3),
   Current(With(DEFAULT_SETTINGS, "weekly", 0, "json", "download", FALSE, FALSE,
                <<"BookmarkBackups">>, 5), 0, Tree3)}

\* the extension has just been installed: nothing is stored, no alarm is
\* pending and the onInstalled listener has called getSettings()
FreshInstall ==
  /\ bookmarkTree = Tree3
  /\ kvSettings = <<>>
  /\ alarm = NoAlarm
  /\ kvHistory = <<>>
  /\ uiSettings = getSettings(<<>>)
  /\ requests = 0
  /\ handlers = [h \in Handlers |->
                   IF h = 1 THEN [IdleHandler EXCEPT !.pc = "getSettings", !.kind = "install"]
                   ELSE IdleHandler]

\* the extension is installed and configured as scenario sc says
Installed(sc) ==
  /\ bookmarkTree = sc.tree
  /\ kvSettings = <<[sc.settings EXCEPT !.nextBackup =
                       IF ScheduledFor(sc.scheduledFor, StartNow) = NoAlarm
                       THEN Undefined
                       ELSE ScheduledFor(sc.scheduledFor, StartNow)]>>
  /\ alarm = ScheduledFor(sc.scheduledFor, StartNow)
  /\ kvHistory = OldHistory(sc.old)
  /\ uiSettings = getSettings(kvSettings)
  /\ requests = (IF sc.settings = sc.scheduledFor THEN 0 ELSE 1)
  /\ handlers = [h \in Handlers |-> IdleHandler]

\* the worker on its own: the page saves nothing and no "updateSchedule"
\* message is received
Init ==
  /\ CalcOff
  /\ SerOff
  /\ NameOff
  /\ now = StartNow
  /\ ticks = 0
  /\ \E sc \in Scenarios : Installed(sc)
  /\ runs = [r \in Runs |-> IdleRun]
  /\ started = 0
  /\ saves = MaxSaves

\* the worker and the page: one invocation of performBackup at most, with
\* the page's saves and the schedule handlers
SchedInit ==
  /\ CalcOff
  /\ SerOff
  /\ NameOff
  /\ now = StartNow
  /\ ticks = 0
  /\ \/ \E sc \in Scenarios : Installed(sc)
     \/ FreshInstall
  /\ runs = [r \in Runs |-> IdleRun]
  /\ started = MaxStarts - 1
  /\ saves = 0

Next ==
  \/ ManualBackup
  \/ AlarmFires
  \/ Tick
  \/ \E r \in Runs : GetSettings(r)
  \/ \E r \in Runs : GetAllBookmarks(r)
  \/ \E r \in Runs : GetDirectoryHandle(r)
  \/ \E r \in Runs : VerifyDirectoryPermission(r)
  \/ \E r \in Runs : WriteFileToDirectory(r)
  \/ \E r \in Runs : Download(r)
  \/ \E r \in Runs : GetBackupHistory(r)
  \/ \E r \in Runs : GetHistorySettings(r)
  \/ \E r \in Runs : SetHistory(r)
  \/ \E r \in Runs : SaveSettings(r)
  \/ \E r \in Runs : AlarmsClear(r)
  \/ \E r \in Runs : AlarmsCreate(r)

Spec == Init /\ [][Next]_vars

SchedNext ==
  \/ ManualBackup
  \/ AlarmFires
  \/ Tick
  \/ \E r \in Runs : GetSettings(r)
  \/ \E r \in Runs : GetAllBookmarks(r)
  \/ \E r \in Runs : GetDirectoryHandle(r)
  \/ \E r \in Runs : VerifyDirectoryPermission(r)
  \/ \E r \in Runs : WriteFileToDirectory(r)
  \/ \E r \in Runs : Download(r)
  \/ \E r \in Runs : GetBackupHistory(r)
  \/ \E r \in Runs : GetHistorySettings(r)
  \/ \E r \in Runs : SetHistory(r)
  \/ \E r \in Runs : SaveSettings(r)
  \/ \E r \in Runs : AlarmsClear(r)
  \/ \E r \in Runs : AlarmsCreate(r)
  \/ UpdateSetting
  \/ OnUpdateSchedule
  \/ OnStartup
  \/ \E h \in Handlers : HandlerGetSettings(h)
  \/ \E h \in Handlers : HandlerAlarmsClear(h)
  \/ \E h \in Handlers : HandlerAlarmsCreate(h)
  \/ \E h \in Handlers : HandlerSaveSettings(h)

SchedSpec == SchedInit /\ [][SchedNext]_vars

(***************************************************************************)
(* Claims about the scheduler (checked under CalcSpec).                    *)
(***************************************************************************)
CalcTimeOfDay == ParseBackupTime(calcSettings.backupTime).hours * SecPerHour
                   + ParseBackupTime(calcSettings.backupTime).minutes * SecPerMin

\* C1: for daily, weekly with backupDay 0-6, monthly with backupDay 1-31 and
\* custom with customIntervalDays >= 1 (or unset), every call of
\* calculateNextBackupTime returns, and returns an instant strictly after now.
C1_ReturnsStrictlyAfterNow ==
  (/\ calcPc # "call"
   /\ calcSettings.frequency = "weekly" => calcSettings.backupDay \in 0..6
   /\ calcSettings.frequency = "monthly" => calcSettings.backupDay \in 1..31)
  => (calcPc = "returned" /\ calcResult > calcNow)

\* C2: for daily, and for weekly with backupDay d in 0-6, the call returns the
\* earliest instant strictly after now whose time of day is backupTime (and
\* whose weekday is d): it is after now, at backupTime (on weekday d), and no
\* more than 1 day (7 days) after now, so the previous such instant is <= now.
C2_DailyWeeklyEarliest ==
  (/\ calcPc # "call"
   /\ \/ calcSettings.frequency = "daily"
      \/ calcSettings.frequency = "weekly" /\ calcSettings.backupDay \in 0..6)
  => /\ calcPc = "returned"
     /\ calcResult > calcNow
     /\ SecOf(calcResult) = CalcTimeOfDay
     /\ calcSettings.frequency = "weekly" => GetDay(calcResult) = calcSettings.backupDay
     /\ calcResult - (IF calcSettings.frequency = "daily" THEN 1 ELSE 7) * SecPerDay
          <= calcNow

\* C2 witness: a weekly call made on the target weekday at or after backupTime
\* has returned the instant a full week later.
C2_Witness ==
  /\ calcPc = "returned"
  /\ calcSettings.frequency = "weekly"
  /\ calcSettings.backupDay = GetDay(calcNow)
  /\ SecOf(calcNow) >= CalcTimeOfDay
  /\ calcResult = SetHours(calcNow, 0, 0, 0) + 7 * SecPerDay + CalcTimeOfDay

Min(a, b) == IF a <= b THEN a ELSE b

\* C3: for monthly with backupDay t in 1-31 the call returns an instant whose
\* day of month is min(t, number of days of its month) and that falls in
\* now's calendar month or in the following one.
C3_MonthlyClampsToMonthLength ==
  (/\ calcPc # "call"
   /\ calcSettings.frequency = "monthly"
   /\ calcSettings.backupDay \in 1..31)
  => /\ calcPc = "returned"
     /\ GetDate(calcResult)
          = Min(calcSettings.backupDay,
                DaysInMonth(GetFullYear(calcResult), GetMonth(calcResult)))
     /\ GetFullYear(calcResult) * 12 + GetMonth(calcResult)
          \in {GetFullYear(calcNow) * 12 + GetMonth(calcNow),
               GetFullYear(calcNow) * 12 + GetMonth(calcNow) + 1}

(***************************************************************************)
(* Claims about the history ledger and the backup run (checked under Spec).*)
(***************************************************************************)
\* a handler of run r has just run
Stepped(r) == runs'[r] # runs[r]

\* C4: when addBackupToHistory(item) writes the ledger and no other writer
\* came between its read and its write, the persisted ledger is the first
\* keepBackupCount elements of item followed by the previous ledger: item at
\* the front, the older items in their order, the oldest dropped, and no
\* more than the keepBackupCount read by that append.
C4_AppendStep(r) ==
  (runs[r].pc = "setHistory" /\ Stepped(r) /\ runs[r].history = kvHistory)
  => /\ Len(kvHistory') = Min(runs[r].keepRead, Len(kvHistory) + 1)
     /\ Len(kvHistory') <= runs[r].keepRead
     /\ kvHistory'[1] = runs[r].historyItem
     /\ \A i \in 2..Len(kvHistory') : kvHistory'[i] = kvHistory[i - 1]

C4_AppendKeepsNewestPrefix == [][\A r \in Runs : C4_AppendStep(r)]_vars

\* C4 witness: an append to a full ledger has evicted the oldest item.
C4_Witness ==
  \E r \in Runs :
    /\ runs[r].pc = "saveSettings"
    /\ Len(runs[r].history) >= runs[r].keepRead
    /\ Len(kvHistory) = runs[r].keepRead
    /\ kvHistory[1] = runs[r].historyItem
    /\ kvHistory[Len(kvHistory)] = runs[r].history[Len(kvHistory) - 1]

\* C5: in every reachable state the timestamps of the ledger do not increase
\* from index 1 to the end (newest first), overlapping runs included.
C5_NewestFirst ==
  \A i \in 1..Len(kvHistory) : \A j \in 1..Len(kvHistory) :
    i < j => kvHistory[i].timestamp >= kvHistory[j].timestamp

\* C6: when a run started by the alarm, with settings.enabled true, returns
\* {success: false}, an alarm is armed for a later time.
C6_FailedRunLeavesAlarm ==
  [][\A r \in Runs :
       (/\ runs[r].pc # "idle"
        /\ runs'[r].pc = "idle"
        /\ runs'[r].result.status = "failure"
        /\ runs[r].trigger = "timer"
        /\ runs[r].settings.enabled)
       => (alarm' # NoAlarm /\ alarm' > now')]_vars

\* C7: every invocation of performBackup returns a result: none is left in a
\* loop that does not end.
C7_EveryRunReturns == \A r \in Runs : runs[r].pc # "spinning"

IsBlank(str) == \A i \in 1..Len(str) : str[i] = " "

AfterStorage ==
  {"getBackupHistory", "getHistorySettings", "setHistory", "saveSettings",
   "alarmsClear", "alarmsCreate", "spinning", "idle"}

\* C8: in a run with storageMode download, autoDownload and
\* useCustomDirectory, once the custom directory has failed (no handle, no
\* permission or a write error) the run has issued the generic download into
\* downloadFolder ("BookmarkBackups" when blank) and has not failed unless
\* that download failed; when the download succeeded the run goes on to the
\* ledger, and once returned it has appended its item and reports success.
C8_CustomDirFailureFallsBack ==
  \A r \in Runs :
    runs[r].customFailed
    => /\ runs[r].settings.storageMode = "download"
       /\ runs[r].settings.autoDownload
       /\ runs[r].settings.useCustomDirectory
       /\ Len(runs[r].downloads) = 1
       /\ runs[r].downloads[1].filename = runs[r].filename
       /\ ~runs[r].downloads[1].saveAs
       /\ IsBlank(runs[r].settings.downloadFolder)
            => runs[r].downloads[1].folder = <<"BookmarkBackups">>
       /\ ~IsBlank(runs[r].settings.downloadFolder)
            => /\ ~IsBlank(<<Head(runs[r].downloads[1].folder)>>)
               /\ runs[r].downloads[1].folder # <<"BookmarkBackups">>
       /\ runs[r].result.status = "failure" => ~runs[r].downloadOk
       /\ runs[r].downloadOk => runs[r].pc \in AfterStorage
       /\ (runs[r].downloadOk /\ runs[r].pc = "idle")
            => /\ runs[r].result.status = "success"
               /\ runs[r].result.historyItem = runs[r].historyItem
               /\ runs[r].appended

\* C8 witness: a run whose custom directory failed and whose generic
\* download succeeded has returned success with its item at the front.
C8_Witness ==
  \E r \in Runs :
    /\ runs[r].customFailed
    /\ runs[r].downloadOk
    /\ runs[r].pc = "idle"
    /\ runs[r].result.status = "success"
    /\ kvHistory # <<>>
    /\ kvHistory[1] = runs[r].historyItem

RECURSIVE UrlNodeIds(_)
\* the ids of the nodes of a tree that have a url
UrlNodeIds(nodes) ==
  UNION {(IF nodes[i].url # <<>> THEN {nodes[i].id} ELSE {})
           \cup UrlNodeIds(nodes[i].children) : i \in 1..Len(nodes)}

\* the text of a backup of the bookmark tree made at instant t
SerializedTree(format, t) ==
  IF format = "json"
  THEN exportAsJSON(createBackupData(bookmarkTree, t, LocalUtcOffset))
  ELSE exportAsHTML(createBackupData(bookmarkTree, t, LocalUtcOffset))

DirectoryOrDownload ==
  {"getDirectoryHandle", "verifyDirectoryPermission", "writeFileToDirectory", "download"}

\* the settings of run r have been loaded
Loaded(r) == runs[r].trigger # "" /\ runs[r].pc # "getSettings"

C9_RunState(r) ==
  (Loaded(r) /\ runs[r].settings.storageMode = "extension")
  => /\ ~runs[r].dirCalled
     /\ runs[r].dirWrites = <<>>
     /\ runs[r].downloads = <<>>
     /\ runs[r].pc \notin DirectoryOrDownload
     /\ runs[r].result.status # "failure"
     /\ runs[r].pc # "getAllBookmarks"
          => /\ runs[r].historyItem.data
                  = SerializedTree(runs[r].settings.format, runs[r].historyItem.timestamp)
             /\ runs[r].historyItem.data # NoData
             /\ runs[r].historyItem.bookmarkCount = Cardinality(UrlNodeIds(bookmarkTree))
             /\ runs[r].historyItem.format = runs[r].settings.format

C9_AppendStep(r) ==
  (runs[r].pc = "setHistory" /\ Stepped(r) /\ runs[r].settings.storageMode = "extension")
  => kvHistory'[1] = runs[r].historyItem

\* C9: a run with storageMode extension, whatever autoDownload and
\* useCustomDirectory are, calls neither the directory handle provider nor
\* the download sink, does not fail, and the item it appends carries the
\* serialized tree as data, the number of url nodes of the tree as
\* bookmarkCount and settings.format as format.
C9_ExtensionModeStoresInLedger ==
  /\ [](\A r \in Runs : C9_RunState(r))
  /\ [][\A r \in Runs : C9_AppendStep(r)]_vars

\* C9 witness: an extension-mode run over the tree of 3 bookmarks, in JSON
\* and with useCustomDirectory set, has appended its item.
C9_Witness ==
  \E r \in Runs :
    /\ runs[r].settings.storageMode = "extension"
    /\ runs[r].settings.useCustomDirectory
    /\ runs[r].settings.format = "json"
    /\ runs[r].appended
    /\ runs[r].historyItem.bookmarkCount = 3
    /\ kvHistory[1] = runs[r].historyItem
    /\ kvHistory[1].data # NoData

C10_ClearStep(r) ==
  (runs[r].pc = "alarmsClear" /\ Stepped(r))
  => /\ alarm' = NoAlarm
     /\ ~runs[r].updatedSettings.enabled
          => (runs'[r].pc = "idle" /\ runs'[r].scheduleResult = 0)
     /\ runs[r].updatedSettings.enabled
          => /\ runs'[r].pc \in {"alarmsCreate", "spinning"}
             /\ runs'[r].pc = "alarmsCreate"
                  => runs'[r].nextBackupTime
                       = calculateNextBackupTime(runs[r].updatedSettings, now)

C10_CreateStep(r) ==
  (runs[r].pc = "alarmsCreate" /\ Stepped(r))
  => /\ runs[r].updatedSettings.enabled
     /\ alarm' = runs[r].nextBackupTime
     /\ alarm' # NoAlarm
     /\ runs'[r].scheduleResult = alarm'

\* C10: scheduleBackup(settings) first clears the alarm slot; with enabled
\* false it arms nothing and returns 0; with enabled true it then arms the
\* slot at calculateNextBackupTime(settings) and returns that time.
C10_ScheduleBackupClearsThenArms ==
  [][\A r \in Runs : C10_ClearStep(r) /\ C10_CreateStep(r)]_vars

\* C10 witness: scheduleBackup was called with enabled false by a run started
\* by the alarm; it returned 0 and no alarm is pending.
C10_Witness ==
  \E r \in Runs :
    /\ runs[r].pc = "idle"
    /\ runs[r].trigger = "timer"
    /\ runs[r].result.status = "success"
    /\ ~runs[r].updatedSettings.enabled
    /\ runs[r].scheduleResult = 0
    /\ alarm = NoAlarm

(***************************************************************************)
(* Claims about the schedule and the settings (checked under SchedSpec).   *)
(***************************************************************************)
\* no run and no schedule handler is in progress and no "updateSchedule"
\* message is on its way
Quiescent ==
  /\ \A r \in Runs : runs[r].pc = "idle"
  /\ \A h \in Handlers : handlers[h].pc = "idle"
  /\ requests = 0

\* C11: in every quiescent state an alarm is pending only if the persisted
\* settings have enabled = true.
C11_AlarmOnlyIfEnabled ==
  (Quiescent /\ alarm # NoAlarm) => getSettings(kvSettings).enabled

\* a step of schedule handler h
HandlerStepped(h) == handlers'[h] # handlers[h]

C12_DeriveStep(h) ==
  /\ (handlers[h].pc = "getSettings" /\ HandlerStepped(h))
       => handlers'[h].settings = getSettings(kvSettings)
  /\ (handlers[h].pc = "alarmsClear" /\ HandlerStepped(h) /\ handlers[h].settings.enabled)
       => /\ alarm' = NoAlarm
          /\ handlers'[h].pc \in {"alarmsCreate", "spinning"}
          /\ handlers'[h].pc = "alarmsCreate"
               => handlers'[h].nextBackup
                    = calculateNextBackupTime(handlers[h].settings, now)
  /\ (handlers[h].pc = "alarmsCreate" /\ HandlerStepped(h))
       => alarm' = handlers[h].nextBackup

C12_RespondStep(h) ==
  (/\ handlers[h].pc = "saveSettings"
   /\ HandlerStepped(h)
   /\ handlers[h].kind = "updateSchedule"
   /\ getSettings(kvSettings) = handlers[h].settings
   /\ alarm = handlers[h].nextBackup)
  => /\ handlers[h].settings.enabled
     /\ handlers'[h].pc = "idle"
     /\ handlers'[h].response = handlers[h].nextBackup
     /\ handlers'[h].response > 0
     /\ alarm' = handlers'[h].response
     /\ getSettings(kvSettings').nextBackup = handlers'[h].response
     /\ [getSettings(kvSettings') EXCEPT !.nextBackup = getSettings(kvSettings).nextBackup]
          = getSettings(kvSettings)

\* C12: the updateSchedule handler derives the next trigger from the settings
\* it reads from the store, arms the alarm with it and, when enabled is true
\* and neither the settings nor the alarm were written in between, responds
\* with a time that is the pending alarm's time and the persisted nextBackup,
\* every other settings field being as it was.
C12_UpdateScheduleRearms ==
  [][\A h \in Handlers : C12_DeriveStep(h) /\ C12_RespondStep(h)]_vars

\* C12 witness: an updateSchedule handler has responded with a time that is
\* the alarm's and the persisted nextBackup, after automatic backup was
\* switched on.
C12_Witness ==
  \E h \in Handlers :
    /\ handlers[h].pc = "idle"
    /\ handlers[h].kind = "updateSchedule"
    /\ handlers[h].response # Undefined
    /\ handlers[h].response > now
    /\ alarm = handlers[h].response
    /\ kvSettings = <<WithNextBackup(handlers[h].settings, handlers[h].response)>>
    /\ saves = 1

\* C13: a run that finds no settings record stored loads the documented
\* defaults: automatic backup enabled, weekly on Sunday (day 0) at 09:00,
\* format JSON, extension storage, 5 backups kept.
C13_FirstRunDefaults ==
  [][\A r \in Runs :
       (runs[r].pc = "getSettings" /\ Stepped(r) /\ kvSettings = <<>>)
       => /\ runs'[r].settings.enabled
          /\ runs'[r].settings.frequency = "weekly"
          /\ runs'[r].settings.backupDay = 0
          /\ runs'[r].settings.backupTime = BackupTime(9, 0)
          /\ runs'[r].settings.format = "json"
          /\ runs'[r].settings.storageMode = "extension"
          /\ runs'[r].settings.keepBackupCount = 5]_vars

(***************************************************************************)
(* Claims about the serializer (checked under SerSpec).                    *)
(***************************************************************************)
RECURSIVE AllNodes(_)
\* every node of a forest, each without its children, in document order
AllNodes(nodes) ==
  Flatten([i \in 1..Len(nodes) |->
             <<[nodes[i] EXCEPT !.children = <<>>]>> \o AllNodes(nodes[i].children)])

\* the positions at which pat occurs in text
Occurrences(text, pat) ==
  {i \in 1..(Len(text) - Len(pat) + 1) : SubSeq(text, i, i + Len(pat) - 1) = pat}

\* C14: countBookmarks(tree) is the number of nodes of the tree that have a
\* url; it is the same for the tree's nodes laid out flat, without nesting.
C14_CountIsUrlNodes ==
  serPc = "returned"
  => /\ serCount = Cardinality(UrlNodeIds(bookmarkTree))
     /\ serCount = Cardinality({i \in 1..Len(AllNodes(bookmarkTree)) :
                                  AllNodes(bookmarkTree)[i].url # <<>>})
     /\ serCount = countBookmarks(AllNodes(bookmarkTree))

\* C14 witness: a tree whose root has one folder, with 2 bookmarks below it
\* among other nodes, has been counted.
C14_Witness ==
  /\ serPc = "returned"
  /\ serCount = 2
  /\ Len(bookmarkTree[1].children) = 1
  /\ Len(AllNodes(bookmarkTree)) = MaxNodes + 1

C16_ListsBalanced ==
  serPc = "returned"
  => /\ Cardinality(Occurrences(serHtml, DlOpen))
          = Cardinality(Occurrences(serHtml, DlClose))
     /\ \A c \in Occurrences(serHtml, DlClose) :
          Cardinality({d \in Occurrences(serHtml, DlClose) : d <= c})
            <= Cardinality({o \in Occurrences(serHtml, DlOpen) : o < c})

\* C16 witness: a tree with a titled folder inside a titled folder, whose
\* titles read <DL><p>, has been exported with 3 lists.
C16_Witness ==
  /\ serPc = "returned"
  /\ Cardinality(Occurrences(serHtml, DlOpen)) = 3
  /\ \E i \in 1..Len(bookmarkTree[1].children) :
       LET node == bookmarkTree[1].children[i]
       IN /\ node.title = DlOpen
          /\ \E j \in 1..Len(node.children) : node.children[j].title = DlOpen

(***************************************************************************)
(* More claims about the scheduler (checked under CalcSpec).               *)
(***************************************************************************)
\* C17: calculateNextBackupTime returns for every now, every frequency and
\* every backupDay in 0-31 (or unset): its monthly loop is never left
\* running.
C17_CalcTerminates == calcPc # "spinning"

(***************************************************************************)
(* More claims about the backup run (checked under Spec).                  *)
(***************************************************************************)
\* C18: after the only run of a behaviour has returned success, the persisted
\* settings are the settings it loaded but for lastBackup, a time within the
\* run, and nextBackup, a later time; and when enabled is true the alarm is
\* armed at exactly the persisted nextBackup.
C18_AlarmIsPersistedNextBackup ==
  \A r \in Runs :
    (started = 1 /\ runs[r].pc = "idle" /\ runs[r].result.status = "success")
    => /\ kvSettings # <<>>
       /\ [kvSettings[1] EXCEPT !.lastBackup = runs[r].settings.lastBackup,
                                !.nextBackup = runs[r].settings.nextBackup]
            = runs[r].settings
       /\ kvSettings[1].lastBackup >= runs[r].historyItem.timestamp
       /\ kvSettings[1].lastBackup <= now
       /\ kvSettings[1].nextBackup > kvSettings[1].lastBackup
       /\ runs[r].settings.enabled => alarm = kvSettings[1].nextBackup

\* where a run is before its download has succeeded or been skipped
UpToDownload ==
  {"getSettings", "getAllBookmarks", "getDirectoryHandle", "verifyDirectoryPermission",
   "writeFileToDirectory", "download"}

C19_Step(r) ==
  /\ (runs[r].pc \in UpToDownload /\ Stepped(r))
       => (kvHistory' = kvHistory /\ kvSettings' = kvSettings /\ alarm' = alarm)
  /\ (runs[r].pc = "download" /\ Stepped(r) /\ ~runs'[r].downloadOk)
       => /\ runs'[r].pc = "idle"
          /\ runs'[r].result.status = "failure"
          /\ runs'[r].result.error # ""
          /\ runs'[r].result.historyItem = NoItem
          /\ ~runs'[r].appended

\* C19: no step of a run up to and including the failure of its download
\* writes the ledger, the settings record or the alarm slot, and when the
\* download fails the run returns {success: false, error}.
C19_DownloadFailureChangesNothing == [][\A r \in Runs : C19_Step(r)]_vars

\* C19 witness: a manual run whose custom directory failed and whose download
\* failed has returned failure; ledger, settings and alarm are those of the
\* initial state.
C19_Witness ==
  \E r \in Runs :
    /\ started = 1
    /\ runs[r].pc = "idle"
    /\ runs[r].trigger = "manual"
    /\ runs[r].customFailed
    /\ runs[r].result.status = "failure"
    /\ kvHistory = OldHistory(MaxOld)
    /\ kvSettings = <<runs[r].settings>>
    /\ alarm = runs[r].settings.nextBackup

\* the runs that have returned success with the item of run r
SucceededWith(r) ==
  {q \in Runs : /\ runs[q].pc = "idle"
                /\ runs[q].result.status = "success"
                /\ runs[q].historyItem = runs[r].historyItem}

\* C20: once no run is in progress, the item of every run that returned
\* success is in the ledger, as many times as there are such runs
\* (keepBackupCount being at least the number of runs).
C20_NoAppendLost ==
  (\A r \in Runs : runs[r].pc = "idle")
  => \A r \in Runs :
       (runs[r].result.status = "success" /\ runs[r].keepRead >= MaxRuns)
       => Cardinality({i \in 1..Len(kvHistory) : kvHistory[i] = runs[r].historyItem})
            >= Cardinality(SucceededWith(r))

(***************************************************************************)
(* The custom frequency (checked under CalcSpec).                          *)
(***************************************************************************)
\* the interval of the custom frequency: customIntervalDays, 7 when unset
CustomInterval ==
  IF calcSettings.customIntervalDays = Undefined THEN 7
  ELSE calcSettings.customIntervalDays

\* C25: for frequency custom the call returns today at backupTime when that
\* instant is after now, and otherwise the day CustomInterval days after
\* today, at backupTime.
C25_CustomAddsInterval ==
  (calcPc # "call" /\ calcSettings.frequency = "custom")
  => /\ calcPc = "returned"
     /\ SecOf(calcResult) = CalcTimeOfDay
     /\ SecOf(calcNow) < CalcTimeOfDay => DayOf(calcResult) = DayOf(calcNow)
     /\ SecOf(calcNow) >= CalcTimeOfDay
          => DayOf(calcResult) = DayOf(calcNow) + CustomInterval

\* C25 witness: a custom call with no interval set, made at backupTime to
\* the second on the last day of a month, has returned the instant 7 days
\* later, in the next month.
C25_Witness ==
  /\ calcPc = "returned"
  /\ calcSettings.frequency = "custom"
  /\ calcSettings.customIntervalDays = Undefined
  /\ SecOf(calcNow) = CalcTimeOfDay
  /\ GetDate(calcNow + SecPerDay) = 1
  /\ calcResult = calcNow + 7 * SecPerDay
  /\ GetDate(calcResult) = 7

(***************************************************************************)
(* The filename of a backup (checked under NameSpec).                      *)
(***************************************************************************)
\* the calendar date and the time of day of a Date read in its own zone
CivilDate(t) == <<GetFullYear(t), GetMonth(t) + 1, GetDate(t)>>
CivilTime(t) ==
  <<SecOf(t) \div SecPerHour, (SecOf(t) % SecPerHour) \div SecPerMin, SecOf(t) % SecPerMin>>

\* C30: generateFilename(format) is bookmarks-backup-<date>-<time>.<format>
\* where date and time are the calendar date and the time of day of the
\* instant of the call in one zone: both local, or both UTC.
C30_FilenameDateAndTimeAgree ==
  namePc = "returned"
  => /\ nameResult.prefix = "bookmarks-backup"
     /\ nameResult.ext = nameFormat
     /\ \/ /\ nameResult.date = CivilDate(nameNow)
           /\ nameResult.time = CivilTime(nameNow)
        \/ /\ nameResult.date = CivilDate(nameNow - nameOffset)
           /\ nameResult.time = CivilTime(nameNow - nameOffset)

(***************************************************************************)
(* The sinks of a run in download mode (checked under Spec).               *)
(***************************************************************************)
\* C23: a run with storageMode download and autoDownload never delivers to
\* more than one sink, and once it has reported success it delivered to
\* exactly one: either the custom directory was written once and no download
\* was issued, or one download was issued, under the run's filename, without
\* prompting (saveAs false) and with conflictAction uniquify.
C23_ExactlyOneSink ==
  \A r \in Runs :
    (Loaded(r) /\ runs[r].settings.storageMode = "download" /\ runs[r].settings.autoDownload)
    => /\ Len(runs[r].dirWrites) + Len(runs[r].downloads) <= 1
       /\ (runs[r].pc = "idle" /\ runs[r].result.status = "success")
            => \/ /\ runs[r].savedToCustomDir
                  /\ runs[r].settings.useCustomDirectory
                  /\ Len(runs[r].dirWrites) = 1
                  /\ runs[r].dirWrites[1].filename = runs[r].filename
                  /\ runs[r].dirWrites[1].size = runs[r].historyItem.size
                  /\ runs[r].downloads = <<>>
               \/ /\ ~runs[r].savedToCustomDir
                  /\ runs[r].dirWrites = <<>>
                  /\ Len(runs[r].downloads) = 1
                  /\ runs[r].downloadOk
                  /\ runs[r].downloads[1].filename = runs[r].filename
                  /\ runs[r].downloads[1].size = runs[r].historyItem.size
                  /\ runs[r].downloads[1].saveAs = FALSE
                  /\ runs[r].downloads[1].conflictAction = "uniquify"

\* C23 witness: of two successful runs with autoDownload and a custom
\* directory, one wrote the directory and issued no download, the other
\* fell back to one download.
C23_Witness ==
  \E r \in Runs : \E q \in Runs :
    /\ runs[r].pc = "idle" /\ runs[r].result.status = "success"
    /\ runs[q].pc = "idle" /\ runs[q].result.status = "success"
    /\ runs[r].settings.storageMode = "download" /\ runs[r].settings.autoDownload
    /\ runs[q].settings.storageMode = "download" /\ runs[q].settings.autoDownload
    /\ runs[r].savedToCustomDir /\ runs[r].downloads = <<>>
    /\ runs[q].customFailed /\ Len(runs[q].downloads) = 1 /\ runs[q].dirWrites = <<>>

\* run r has settings with storageMode download and autoDownload false
NoAutoDownload(r) ==
  /\ Loaded(r)
  /\ runs[r].settings.storageMode = "download"
  /\ ~runs[r].settings.autoDownload

C24_RunState(r) ==
  NoAutoDownload(r)
  => /\ ~runs[r].dirCalled
     /\ runs[r].dirWrites = <<>>
     /\ runs[r].downloads = <<>>
     /\ runs[r].pc \notin DirectoryOrDownload
     /\ runs[r].result.status # "failure"
     /\ runs[r].pc # "getAllBookmarks"
          => /\ runs[r].historyItem.data = NoData
             /\ runs[r].historyItem.size
                  = ByteLength(SerializedTree(runs[r].settings.format,
                                              runs[r].historyItem.timestamp))
     /\ runs[r].pc = "idle"
          => (runs[r].result.status = "success" /\ runs[r].appended)

C24_AppendStep(r) ==
  (runs[r].pc = "setHistory" /\ Stepped(r) /\ NoAutoDownload(r))
  => (kvHistory'[1] = runs[r].historyItem /\ kvHistory'[1].data = NoData)

\* C24: a run with storageMode download and autoDownload false calls neither
\* the directory handle provider nor the download sink, does not fail, and
\* appends an item whose size is the size of the serialized tree and which
\* has no data; once returned it reports success.
C24_NoAutoDownloadRecordsSizeOnly ==
  /\ [](\A r \in Runs : C24_RunState(r))
  /\ [][\A r \in Runs : C24_AppendStep(r)]_vars

\* C24 witness: a run with storageMode download and autoDownload false has
\* returned success; its item, with a size and no data, is at the front of
\* the ledger and nothing was written or downloaded.
C24_Witness ==
  \E r \in Runs :
    /\ NoAutoDownload(r)
    /\ runs[r].pc = "idle"
    /\ runs[r].result.status = "success"
    /\ kvHistory # <<>>
    /\ kvHistory[1] = runs[r].historyItem
    /\ kvHistory[1].size > 0
    /\ kvHistory[1].data = NoData
    /\ runs[r].downloads = <<>> /\ runs[r].dirWrites = <<>>

(***************************************************************************)
(* The ids of the ledger (checked under Spec).                             *)
(***************************************************************************)
\* C21: in every reachable state the ids of the items of the ledger are
\* pairwise distinct.
C21_IdsDistinct ==
  \A i \in 1..Len(kvHistory) : \A j \in 1..Len(kvHistory) :
    i # j => kvHistory[i].id # kvHistory[j].id

(***************************************************************************)
(* The page's saves against the worker (checked under SchedSpec).          *)
(***************************************************************************)
\* C22: in every reachable state the persisted ledger has at most
\* keepBackupCount items, keepBackupCount being that of the persisted
\* settings.
C22_HistoryWithinKeepCount ==
  Len(kvHistory) <= getSettings(kvSettings).keepBackupCount

\* the fields of the settings the user controls: all but lastBackup and
\* nextBackup, which the worker maintains
UserFields(settings) ==
  [settings EXCEPT !.lastBackup = Undefined, !.nextBackup = Undefined]

\* C26: once the page has saved settings and no run, no schedule handler and
\* no "updateSchedule" message is in progress, the user-controlled fields of
\* the persisted settings are those of the page's most recent save.
C26_UiSaveNotUndone ==
  (Quiescent /\ saves > 0) => UserFields(getSettings(kvSettings)) = UserFields(uiSettings)

\* C27: a run started by the alarm whose loaded settings have enabled false
\* writes no directory, issues no download and appends nothing to the ledger.
C27_DisabledTimerRunBacksUpNothing ==
  \A r \in Runs :
    (Loaded(r) /\ runs[r].trigger = "timer" /\ ~runs[r].settings.enabled)
    => /\ ~runs[r].appended
       /\ runs[r].dirWrites = <<>>
       /\ runs[r].downloads = <<>>

\* C28: no step of a backup run or of a schedule handler lowers the
\* persisted lastBackup (unset, -1, being below every time).
C28_LastBackupNeverDecreases ==
  [][saves' = saves
       => getSettings(kvSettings').lastBackup >= getSettings(kvSettings).lastBackup]_vars

\* C29: in every quiescent state in which an alarm is pending, the persisted
\* nextBackup is the alarm's scheduled time.
C29_PersistedNextBackupIsAlarm ==
  (Quiescent /\ alarm # NoAlarm) => getSettings(kvSettings).nextBackup = alarm

====
